---- MODULE Spec2Model ----
(***************************************************************************)
(* A model of the dynamic property-graph store layer of                    *)
(* servers/graphiti/graph_operations.py (class GraphOperations).           *)
(*                                                                         *)
(* The storage engine (Neo4j, reached through the neo4j driver) is the     *)
(* state: a set of node records and a set of relationship records.  Every  *)
(* method of GraphOperations runs one Cypher statement in its own session  *)
(* and is one action here; last and before record each call and the store  *)
(* it started from, so that what a call returns and what it leaves alone   *)
(* are state predicates.  Strings whose characters matter (node types,     *)
(* relationship types, labels) are sequences of one-character strings, so  *)
(* that upper(), replace() and the engine's reading of a back-quoted       *)
(* identifier are computed character by character.                         *)
(*                                                                         *)
(* Modelling decisions about the engine and the driver, which are not part *)
(* of the repository:                                                      *)
(*  - uuid.uuid4() yields a value no earlier call yielded; the values are  *)
(*    numbered in the order in which they enter the store.                 *)
(*  - inside a back-quoted identifier the engine reads a doubled           *)
(*    back-quote as one literal back-quote, and a single back-quote ends   *)
(*    the identifier.  No type string drawn below continues, after a       *)
(*    single back-quote, with text that together with the rest of the      *)
(*    query template is a well-formed statement, so every such string is   *)
(*    a syntax error.                                                      *)
(*  - the engine rejects an empty label or relationship type.              *)
(*  - a property bound to None is read back as None.                       *)
(*  - an aggregate without a grouping key (count, collect) returns one row *)
(*    on an empty match.                                                   *)
(*  - the engine executes a statement as one transaction, atomically with  *)
(*    respect to the statements of other sessions.                         *)
(*  - a session takes a connection from the driver's pool when it runs a   *)
(*    statement and gives it back when the result has been consumed; a     *)
(*    session that runs no statement holds no connection.  A session that  *)
(*    finds no connection free waits for one.                              *)
(*                                                                         *)
(* The calls are modelled twice: as whole actions, one call at a time      *)
(* (Spec, SpecTypes, SpecSeeded, SpecStats), and as tasks of the event     *)
(* loop that interleave at their awaits (SpecConcurrent, SpecLive), where  *)
(* tasks holds every call's position, arguments, answer and open sessions. *)
(***************************************************************************)
EXTENDS Integers, Sequences, FiniteSets, TLC

VARIABLES
    nodes,      \* the node records held by the engine
    rels,       \* the relationship records held by the engine
    issued,     \* how many generated uuids are in use, per kind
    last,       \* the last call: its operation, arguments, result and error
    before,     \* the store as it was when the last call started
    tasks,      \* the calls in flight, one event-loop task each
    graph_ops   \* main.py's global: None until startup has made the handle

vars == <<nodes, rels, issued, last, before, tasks, graph_ops>>

\* ------------------------------------------------------------------ bounds

MaxNodes == 2
MaxRels == 1
\* The calls that run concurrently, and the connections of the driver's pool.
MaxTasks == 2
PoolSize == 1

\* ------------------------------------------------------------- python values

\* None as the value of an optional string.
None == "None"
\* None in the place of a record or a dict: no record, no result.
NoRecord == [none |-> TRUE]

\* The exceptions a call can end with.
NodesMayNotExist == "Failed to create relationship - nodes may not exist"
NodeNotFound == "Node not found"
\* Raised by the driver when the engine rejects the statement.
CypherSyntaxError == "CypherSyntaxError"

\* -------------------------------------------------------------------- text

LowerCase == <<"a","b","c","d","e","f","g","h","i","j","k","l","m",
               "n","o","p","q","r","s","t","u","v","w","x","y","z">>
UpperCase == <<"A","B","C","D","E","F","G","H","I","J","K","L","M",
               "N","O","P","Q","R","S","T","U","V","W","X","Y","Z">>

UpperChar(c) ==
    IF \E i \in 1..Len(LowerCase) : LowerCase[i] = c
    THEN UpperCase[CHOOSE i \in 1..Len(LowerCase) : LowerCase[i] = c]
    ELSE c

\* str.upper()
Upper(s) == [i \in 1..Len(s) |-> UpperChar(s[i])]

\* str.replace(" ", "_")
ReplaceSpaces(s) == [i \in 1..Len(s) |-> IF s[i] = " " THEN "_" ELSE s[i]]

\* (variant: the type is not uppercased)
RelTypeNoUpper(relationship_type) == ReplaceSpaces(relationship_type)

\* rel_type = relationship_type.upper().replace(" ", "_")
RelType(relationship_type) == ReplaceSpaces(Upper(relationship_type))

\* The identifier-quoting delimiter of the query language (U+0060), which a
\* string literal of this module cannot hold.
Backtick == "<backtick>"

Entity == <<"E","n","t","i","t","y">>
Unknown == <<"U","n","k","n","o","w","n">>

\* The engine's reading of the text x placed between the two back-quotes of
\* the query template: TRUE when x leaves the identifier well delimited.
RECURSIVE WellQuoted(_)
WellQuoted(x) ==
    IF x = <<>> THEN TRUE
    ELSE IF Head(x) # Backtick THEN WellQuoted(Tail(x))
    ELSE IF Len(x) >= 2 /\ x[2] = Backtick THEN WellQuoted(Tail(Tail(x)))
    ELSE FALSE

\* The identifier the engine reads from a well delimited x.
RECURSIVE QuotedName(_)
QuotedName(x) ==
    IF x = <<>> THEN <<>>
    ELSE IF Head(x) # Backtick THEN <<Head(x)>> \o QuotedName(Tail(x))
    ELSE <<Backtick>> \o QuotedName(Tail(Tail(x)))

\* The engine runs the statement only if the embedded identifier is well
\* delimited and not empty.
EngineAccepts(x) == WellQuoted(x) /\ QuotedName(x) # <<>>

\* ------------------------------------------------------------------ engine

\* (variant: every draw yields the same value)
NodeUuidRepeated(k) == <<"node", 1>>

\* str(uuid.uuid4()): the k-th value drawn for a node, for a relationship.
NodeUuid(k) == <<"node", k>>
RelUuid(k) == <<"rel", k>>

\* MATCH (n {uuid: $uuid})
MatchNode(store, uuid) == {n \in store : n.uuid = uuid}

\* (variant: only the source clause has to match)
SourceMatch(store, source_uuid, target_uuid) ==
    MatchNode(store, source_uuid) # {}

\* (variant: only the target clause has to match)
TargetMatch(store, source_uuid, target_uuid) ==
    MatchNode(store, target_uuid) # {}

\* MATCH (source {uuid: $source_uuid}) MATCH (target {uuid: $target_uuid}):
\* a row to create the relationship on, only if both clauses match.
BothMatch(store, source_uuid, target_uuid) ==
    /\ MatchNode(store, source_uuid) # {}
    /\ MatchNode(store, target_uuid) # {}

\* result.single(): the record, or no record when the match is empty.
Single(records) == IF records = {} THEN NoRecord ELSE CHOOSE r \in records : TRUE

\* (variants: only the outgoing, only the incoming relationships go)
DetachOutgoing(edges, uuid) == {r \in edges : r.source_uuid # uuid}
DetachIncoming(edges, uuid) == {r \in edges : r.target_uuid # uuid}

\* DETACH DELETE n: the relationships that stay when node uuid goes.
Detach(edges, uuid) == {r \in edges : r.source_uuid # uuid /\ r.target_uuid # uuid}

\* (variant: the row alone decides, the count is not looked at)
DeletedIfRecord(deleted_count) == TRUE

\* record and record["deleted_count"] > 0, on the one row count(n) returns.
Deleted(deleted_count) == deleted_count > 0

\* ---------------------------------------------------------- record mapping

\* (variant: the first label, the marker not filtered out)
NodeTypeFirstLabel(labels) == IF labels # <<>> THEN labels[1] ELSE Unknown

\* next((l for l in labels if l != "Entity"), labels[0] if labels else "Unknown")
NodeType(labels) ==
    IF \E i \in 1..Len(labels) : labels[i] # Entity
    THEN labels[CHOOSE i \in 1..Len(labels) :
                    /\ labels[i] # Entity
                    /\ \A j \in 1..(i - 1) : labels[j] = Entity]
    ELSE IF labels # <<>> THEN labels[1] ELSE Unknown

\* (variant: group_id is left out of the dict)
NodeDictNoGroup(n) ==
    [uuid |-> n.uuid, name |-> n.name, summary |-> n.summary,
     group_id |-> None, created_at |-> n.created_at,
     type |-> NodeType(n.labels)]

\* The dict get_node_by_uuid and update_node build from a record.
NodeDict(n) ==
    [uuid |-> n.uuid, name |-> n.name, summary |-> n.summary,
     group_id |-> n.group_id, created_at |-> n.created_at,
     type |-> NodeType(n.labels)]

\* get_node_by_uuid's return value on a store.
GetNode(store, node_uuid) ==
    LET record == Single(MatchNode(store, node_uuid))
    IN  IF record # NoRecord THEN NodeDict(record) ELSE NoRecord

\* (variant: both properties are set, an unsupplied one to None)
SetFieldsBoth(n, name, summary) ==
    [n EXCEPT !.name = name, !.summary = summary]

\* (variant: the name if supplied, and n.summary = $summary in every case)
SetFieldsSummaryAlways(n, name, summary) ==
    [n EXCEPT !.name = IF name # None THEN name ELSE @, !.summary = summary]

\* SET n.name = $name, n.summary = $summary, for the fields supplied.
SetFields(n, name, summary) ==
    [n EXCEPT !.name = IF name # None THEN name ELSE @,
              !.summary = IF summary # None THEN summary ELSE @]

\* ------------------------------------------------------------------- stats

Episode == <<"E","p","i","s","o","d","e">>

HasLabel(n, label) == \E i \in 1..Len(n.labels) : n.labels[i] = label

\* (variant: MATCH (n:Entity), only the nodes that carry the marker)
AggregateEntityNodes(store) ==
    [total_nodes |-> Cardinality({n \in store : HasLabel(n, Entity)}),
     node_labels |-> {n.labels : n \in store}]

\* MATCH (n) RETURN count(n) as total_nodes,
\*                  collect(DISTINCT labels(n)) as node_labels
\* An aggregate without a grouping key returns its one row on an empty match
\* too.  The collected list is kept as the set of its members.
AggregateNodes(store) ==
    [total_nodes |-> Cardinality(store),
     node_labels |-> {n.labels : n \in store}]

\* MATCH ()-[r]->() RETURN count(r) as total_relationships,
\*                         collect(DISTINCT type(r)) as rel_types
AggregateRels(edges) ==
    [total_relationships |-> Cardinality(edges),
     rel_types |-> {r.type : r \in edges}]

\* (variant: MATCH (e), the nodes of every label)
AggregateEpisodesAnyLabel(store) == [total_episodes |-> Cardinality(store)]

\* MATCH (e:Episode) RETURN count(e) as total_episodes
AggregateEpisodes(store) ==
    [total_episodes |-> Cardinality({n \in store : HasLabel(n, Episode)})]

\* (variant: a missing record is reported as -1)
TotalOrSentinel(record, field) == IF record # NoRecord THEN record[field] ELSE 0 - 1

\* record[field] if record else 0
TotalOrZero(record, field) == IF record # NoRecord THEN record[field] ELSE 0

\* all_labels.extend(label_list) for each list collected; list(set(all_labels))
UniqueLabels(node_record) ==
    IF node_record # NoRecord /\ node_record.node_labels # {}
    THEN UNION {{label_list[i] : i \in 1..Len(label_list)} :
                    label_list \in node_record.node_labels}
    ELSE {}

\* The dict get_graph_stats builds from the three records.
GraphStats(node_record, rel_record, episode_record) ==
    [total_nodes |-> TotalOrZero(node_record, "total_nodes"),
     total_relationships |-> TotalOrZero(rel_record, "total_relationships"),
     total_episodes |-> TotalOrZero(episode_record, "total_episodes"),
     node_types |-> UniqueLabels(node_record),
     relationship_types |->
        IF rel_record # NoRecord /\ rel_record.rel_types # {}
        THEN rel_record.rel_types ELSE {}]

\* get_graph_stats's return value when its three queries read one store.
StatsOf(store, edges) ==
    GraphStats(AggregateNodes(store), AggregateRels(edges),
               AggregateEpisodes(store))

\* ----------------------------------------------------------------- actions

\* A call that runs from its first line to its return with no other call in
\* flight.
Call(op, args, result, error) ==
    /\ last' = [op |-> op, args |-> args, result |-> result, error |-> error]
    /\ before' = [nodes |-> nodes, rels |-> rels]
    /\ UNCHANGED <<tasks, graph_ops>>

\* CREATE ... RETURN n returns its one row whenever the engine runs it, so
\* the raise after "if record" is not a way out of create_node.
CreateNode(name, node_type, summary, group_id, created_at) ==
    LET node_uuid == NodeUuid(issued.nodes + 1)
        args == [name |-> name, node_type |-> node_type, summary |-> summary,
                 group_id |-> group_id]
        n == [uuid |-> node_uuid, labels |-> <<QuotedName(node_type)>>,
              name |-> name, summary |-> summary, group_id |-> group_id,
              created_at |-> created_at]
    IN  /\ issued.nodes < MaxNodes
        /\ IF EngineAccepts(node_type)
           THEN /\ nodes' = nodes \cup {n}
                /\ issued' = [issued EXCEPT !.nodes = @ + 1]
                /\ Call("create_node", args,
                        [uuid |-> n.uuid, name |-> n.name, summary |-> n.summary,
                         group_id |-> n.group_id, created_at |-> n.created_at,
                         type |-> node_type],
                        None)
           ELSE /\ UNCHANGED <<nodes, issued>>
                /\ Call("create_node", args, NoRecord, CypherSyntaxError)
        /\ UNCHANGED rels

CreateRelationship(source_uuid, target_uuid, relationship_type, summary, group_id, created_at) ==
    LET rel_uuid == RelUuid(issued.rels + 1)
        rel_type == RelType(relationship_type)
        args == [source_uuid |-> source_uuid, target_uuid |-> target_uuid,
                 relationship_type |-> relationship_type]
        r == [uuid |-> rel_uuid, source_uuid |-> source_uuid,
              target_uuid |-> target_uuid, type |-> QuotedName(rel_type),
              summary |-> summary, group_id |-> group_id,
              created_at |-> created_at]
    IN  /\ issued.rels < MaxRels
        /\ IF ~EngineAccepts(rel_type)
           THEN /\ UNCHANGED <<rels, issued>>
                /\ Call("create_relationship", args, NoRecord, CypherSyntaxError)
           ELSE IF BothMatch(nodes, source_uuid, target_uuid)
           THEN /\ rels' = rels \cup {r}
                /\ issued' = [issued EXCEPT !.rels = @ + 1]
                /\ Call("create_relationship", args,
                        [uuid |-> rel_uuid, source_uuid |-> source_uuid,
                         target_uuid |-> target_uuid,
                         type |-> relationship_type, summary |-> summary,
                         group_id |-> group_id, created_at |-> created_at],
                        None)
           ELSE /\ UNCHANGED <<rels, issued>>
                /\ Call("create_relationship", args, NoRecord, NodesMayNotExist)
        /\ UNCHANGED nodes

GetNodeByUuid(node_uuid) ==
    /\ Call("get_node_by_uuid", [node_uuid |-> node_uuid],
            GetNode(nodes, node_uuid), None)
    /\ UNCHANGED <<nodes, rels, issued>>

\* (variant: no branch for an empty SET clause, which the engine rejects)
UpdateNodeNoShortCircuit(node_uuid, name, summary) ==
    LET args == [node_uuid |-> node_uuid, name |-> name, summary |-> summary]
        matched == MatchNode(nodes, node_uuid)
        updated == {SetFields(n, name, summary) : n \in matched}
    IN  IF name = None /\ summary = None
        THEN /\ Call("update_node", args, NoRecord, CypherSyntaxError)
             /\ UNCHANGED <<nodes, rels, issued>>
        ELSE /\ nodes' = (nodes \ matched) \cup updated
             /\ IF Single(updated) # NoRecord
                THEN Call("update_node", args, NodeDict(Single(updated)), None)
                ELSE Call("update_node", args, NoRecord, NodeNotFound)
             /\ UNCHANGED <<rels, issued>>

\* (variant: MERGE in the place of MATCH, a node is made when none matches)
UpdateNodeUpsert(node_uuid, name, summary) ==
    LET args == [node_uuid |-> node_uuid, name |-> name, summary |-> summary]
        matched == MatchNode(nodes, node_uuid)
        merged == IF matched # {} THEN matched
                  ELSE {[uuid |-> node_uuid, labels |-> <<>>, name |-> None,
                         summary |-> None, group_id |-> None,
                         created_at |-> None]}
        updated == {SetFields(n, name, summary) : n \in merged}
    IN  IF name = None /\ summary = None
        THEN /\ IF GetNode(nodes, node_uuid) # NoRecord
                THEN Call("update_node", args, GetNode(nodes, node_uuid), None)
                ELSE Call("update_node", args, NoRecord, NodeNotFound)
             /\ UNCHANGED <<nodes, rels, issued>>
        ELSE /\ nodes' = (nodes \ matched) \cup updated
             /\ Call("update_node", args, NodeDict(Single(updated)), None)
             /\ UNCHANGED <<rels, issued>>

UpdateNode(node_uuid, name, summary) ==
    LET args == [node_uuid |-> node_uuid, name |-> name, summary |-> summary]
        matched == MatchNode(nodes, node_uuid)
        updated == {SetFields(n, name, summary) : n \in matched}
    IN  IF name = None /\ summary = None
        THEN \* no SET clause: the call answers with get_node_by_uuid
             /\ IF GetNode(nodes, node_uuid) # NoRecord
                THEN Call("update_node", args, GetNode(nodes, node_uuid), None)
                ELSE Call("update_node", args, NoRecord, NodeNotFound)
             /\ UNCHANGED <<nodes, rels, issued>>
        ELSE /\ nodes' = (nodes \ matched) \cup updated
             /\ IF Single(updated) # NoRecord
                THEN Call("update_node", args, NodeDict(Single(updated)), None)
                ELSE Call("update_node", args, NoRecord, NodeNotFound)
             /\ UNCHANGED <<rels, issued>>

DeleteNode(node_uuid) ==
    LET matched == MatchNode(nodes, node_uuid)
        deleted_count == Cardinality(matched)
    IN  /\ nodes' = nodes \ matched
        /\ rels' = IF matched = {} THEN rels ELSE Detach(rels, node_uuid)
        /\ Call("delete_node", [node_uuid |-> node_uuid], Deleted(deleted_count),
                None)
        /\ UNCHANGED issued

\* The three queries of get_graph_stats, with no other call in between.
GetGraphStats ==
    /\ Call("get_graph_stats", NoRecord, StatsOf(nodes, rels), None)
    /\ UNCHANGED <<nodes, rels, issued>>

\* graph_ops once startup_event has made the GraphOperations.
Handle == "GraphOperations"

\* A task that has not been given its call.
Idle ==
    [pc |-> "idle", op |-> "none", args |-> NoRecord, uuid |-> <<>>,
     reply |-> <<>>, seen |-> {}, read |-> <<>>, result |-> NoRecord,
     error |-> None, sessions |-> 0]

\* ------------------------------------------------------------------ inputs

Names == {"n1", "n2"}
Summaries == {"s1"}
Groups == {"g1"}
Timestamps == {"t1"}
Optional(S) == S \cup {None}

\* A uuid no node carries.
NonexistentUuid == <<"nonexistent-uuid">>
\* The uuid of a node the database held before the service started.
SeedUuid == <<"seed">>
UuidInputs == {NodeUuid(k) : k \in 1..MaxNodes} \cup {NonexistentUuid}

Person == <<"P","e","r","s","o","n">>
Place == <<"P","l","a","c","e">>
Knows == <<"k","n","o","w","s">>
\* " works  at "
WorksAt == <<" ","w","o","r","k","s"," "," ","a","t"," ">>
\* Person, the delimiter, then "; DETACH DELETE n //"
Injection == Person \o <<Backtick, ";", " ", "D","E","T","A","C","H", " ",
                         "D","E","L","E","T","E", " ", "n", " ", "/", "/">>
\* A type holding the delimiter twice in a row.
Doubled == <<"P", Backtick, Backtick, "Q">>
Empty == <<>>

NodeTypeInputs == {Person, Doubled, Injection, Empty}
RelTypeInputs == {WorksAt, Doubled, <<Backtick>>, Empty}

\* Nodes written to the database by something other than create_node:
\* an entity of the episodic-memory pipeline, and a node without labels.
SeedEntity ==
    [uuid |-> SeedUuid, labels |-> <<Entity, Person>>, name |-> "n1",
     summary |-> None, group_id |-> None, created_at |-> "t1"]
SeedBare == [SeedEntity EXCEPT !.labels = <<>>]

InitWith(store) ==
    /\ nodes = store
    /\ rels = {}
    /\ issued = [nodes |-> 0, rels |-> 0]
    /\ last = [op |-> "init", args |-> NoRecord, result |-> NoRecord, error |-> None]
    /\ before = [nodes |-> store, rels |-> {}]
    /\ tasks = [t \in 1..MaxTasks |-> Idle]
    /\ graph_ops = Handle

\* ---------------------------------------------------------- specifications

\* The operations on an empty database, over the fields of a node.
Init == InitWith({})

Next ==
    \/ \E name \in Names, summary \in Optional(Summaries), group_id \in Groups,
          created_at \in Timestamps :
            CreateNode(name, Person, summary, group_id, created_at)
    \/ \E source_uuid \in UuidInputs, target_uuid \in UuidInputs,
          created_at \in Timestamps :
            CreateRelationship(source_uuid, target_uuid, Knows, None, None,
                               created_at)
    \/ \E node_uuid \in UuidInputs : GetNodeByUuid(node_uuid)
    \/ \E node_uuid \in UuidInputs, name \in Optional(Names),
          summary \in Optional(Summaries) :
            UpdateNode(node_uuid, name, summary)
    \/ \E node_uuid \in UuidInputs : DeleteNode(node_uuid)

Spec == Init /\ [][Next]_vars

\* The operations on an empty database, over the type strings.
NextTypes ==
    \/ \E node_type \in NodeTypeInputs, created_at \in Timestamps :
            CreateNode("n1", node_type, None, None, created_at)
    \/ \E source_uuid \in UuidInputs, target_uuid \in UuidInputs,
          relationship_type \in RelTypeInputs, created_at \in Timestamps :
            CreateRelationship(source_uuid, target_uuid, relationship_type,
                               None, None, created_at)
    \/ \E node_uuid \in UuidInputs : GetNodeByUuid(node_uuid)
    \/ \E node_uuid \in UuidInputs, name \in Optional({"n1"}) :
            UpdateNode(node_uuid, name, None)
    \/ \E node_uuid \in UuidInputs : DeleteNode(node_uuid)

SpecTypes == Init /\ [][NextTypes]_vars

\* The operations on a database that already holds a node, over the labels.
InitSeeded == \E seed \in {SeedEntity, SeedBare} : InitWith({seed})

NextSeeded ==
    \/ \E node_type \in {Person, Entity}, created_at \in Timestamps :
            CreateNode("n1", node_type, None, None, created_at)
    \/ \E source_uuid \in UuidInputs \cup {SeedUuid},
          target_uuid \in UuidInputs \cup {SeedUuid},
          created_at \in Timestamps :
            CreateRelationship(source_uuid, target_uuid, Knows, None, None,
                               created_at)
    \/ \E node_uuid \in UuidInputs \cup {SeedUuid} : GetNodeByUuid(node_uuid)
    \/ \E node_uuid \in UuidInputs \cup {SeedUuid}, name \in Optional({"n1"}) :
            UpdateNode(node_uuid, name, None)
    \/ \E node_uuid \in UuidInputs \cup {SeedUuid} : DeleteNode(node_uuid)

SpecSeeded == InitSeeded /\ [][NextSeeded]_vars

\* The operations that change what get_graph_stats counts, and
\* get_graph_stats, on an empty database.
NextStats ==
    \/ \E node_type \in {Person, Place, Episode}, created_at \in Timestamps :
            CreateNode("n1", node_type, None, None, created_at)
    \/ \E source_uuid \in UuidInputs, target_uuid \in UuidInputs,
          relationship_type \in {Knows, WorksAt}, created_at \in Timestamps :
            CreateRelationship(source_uuid, target_uuid, relationship_type,
                               None, None, created_at)
    \/ \E node_uuid \in UuidInputs : DeleteNode(node_uuid)
    \/ GetGraphStats

SpecStats == Init /\ [][NextStats]_vars

\* -------------------------------------------------------------- http layer

\* The detail of the HTTPException(status_code=503) every handler raises,
\* inside its try block, when graph_ops is None.
NotInitialized == "Graph operations not initialized"

\* str(e), word by word.  The text of an engine error is the engine's.
Words(e) ==
    CASE e = NodesMayNotExist ->
            <<"Failed", "to", "create", "relationship", "-", "nodes", "may",
              "not", "exist">>
      [] e = NodeNotFound -> <<"Node", "not", "found">>
      [] e = NotInitialized ->
            <<"503:", "Graph", "operations", "not", "initialized">>
      [] OTHER -> <<e>>

\* str.lower(), on the words that have an uppercase letter.
LowerWord(w) ==
    CASE w = "Failed" -> "failed"
      [] w = "Node" -> "node"
      [] w = "Graph" -> "graph"
      [] OTHER -> w
LowerWords(words) == [i \in 1..Len(words) |-> LowerWord(words[i])]

\* needle in text
Contains(words, needle) ==
    \E i \in 1..(Len(words) - Len(needle) + 1) :
        SubSeq(words, i, i + Len(needle) - 1) = needle

\* The handlers with an "except HTTPException: raise" clause before their
\* "except Exception" clause: get_node and delete_node.
ReRaises(op) == op \in {"get_node_by_uuid", "delete_node"}

\* The status the except clauses of the handler of op answer with, for the
\* exception e raised in its try block.
Except(op, e) ==
    IF e = NotInitialized /\ ReRaises(op) THEN 503
    ELSE IF /\ op = "create_relationship"
            /\ Contains(Words(e), <<"nodes", "may", "not", "exist">>)
    THEN 404
    ELSE IF /\ op = "update_node"
            /\ Contains(LowerWords(Words(e)), <<"not", "found">>)
    THEN 404
    ELSE 500

\* The status the handler of op answers with: 200 with the result, 404 from
\* get_node and delete_node on a falsy result, or what its except clauses
\* make of the exception.
Status(op, result, error) ==
    IF error # None THEN Except(op, error)
    ELSE IF op = "get_node_by_uuid" /\ result = NoRecord THEN 404
    ELSE IF op = "delete_node" /\ result = FALSE THEN 404
    ELSE 200

\* The status of the response to the last request.
Response == Status(last.op, last.result, last.error)

\* startup_event
Startup ==
    /\ graph_ops = None
    /\ graph_ops' = Handle
    /\ UNCHANGED <<nodes, rels, issued, last, before, tasks>>

\* if not graph_ops: raise HTTPException(status_code=503, ...)
Refuse(op) ==
    /\ last' = [op |-> op, args |-> NoRecord, result |-> NoRecord,
                error |-> NotInitialized]
    /\ before' = [nodes |-> nodes, rels |-> rels]
    /\ UNCHANGED <<nodes, rels, issued, tasks, graph_ops>>

HttpAddNode(name, node_type, summary, group_id, created_at) ==
    IF graph_ops = None THEN Refuse("create_node")
    ELSE CreateNode(name, node_type, summary, group_id, created_at)

HttpAddRelationship(source_uuid, target_uuid, relationship_type, summary, group_id, created_at) ==
    IF graph_ops = None THEN Refuse("create_relationship")
    ELSE CreateRelationship(source_uuid, target_uuid, relationship_type,
                            summary, group_id, created_at)

HttpGetNode(uuid) ==
    IF graph_ops = None THEN Refuse("get_node_by_uuid")
    ELSE GetNodeByUuid(uuid)

HttpUpdateNode(uuid, name, summary) ==
    IF graph_ops = None THEN Refuse("update_node")
    ELSE UpdateNode(uuid, name, summary)

HttpDeleteNode(uuid) ==
    IF graph_ops = None THEN Refuse("delete_node")
    ELSE DeleteNode(uuid)

HttpGetGraphStats ==
    IF graph_ops = None THEN Refuse("get_graph_stats")
    ELSE GetGraphStats

\* The module as loaded: graph_ops = None, on an empty database.
InitHttp ==
    /\ nodes = {}
    /\ rels = {}
    /\ issued = [nodes |-> 0, rels |-> 0]
    /\ last = [op |-> "init", args |-> NoRecord, result |-> NoRecord, error |-> None]
    /\ before = [nodes |-> {}, rels |-> {}]
    /\ tasks = [t \in 1..MaxTasks |-> Idle]
    /\ graph_ops = None

\* The requests to the graph endpoints, before and after startup.
NextHttp ==
    \/ Startup
    \/ \E created_at \in Timestamps :
            HttpAddNode("n1", Person, None, None, created_at)
    \/ \E source_uuid \in UuidInputs, target_uuid \in UuidInputs,
          created_at \in Timestamps :
            HttpAddRelationship(source_uuid, target_uuid, Knows, None, None,
                                created_at)
    \/ \E uuid \in UuidInputs : HttpGetNode(uuid)
    \/ \E uuid \in UuidInputs, name \in Optional({"n2"}) :
            HttpUpdateNode(uuid, name, None)
    \/ \E uuid \in UuidInputs : HttpDeleteNode(uuid)
    \/ HttpGetGraphStats

SpecHttp == InitHttp /\ [][NextHttp]_vars

\* -------------------------------------------------------- concurrent calls

\* Every call is a task of the event loop.  A task runs without interruption
\* between two awaits, so a call is cut at its awaits: it opens its session,
\* runs its statement, which the engine executes as one transaction, and
\* takes the result and leaves.

\* (variant: the session update_node opened holds a connection of the pool
\* while get_node_by_uuid asks for one)
InUseBySession ==
    Cardinality({t \in 1..MaxTasks : tasks[t].pc = "running"})
        + Cardinality({t \in 1..MaxTasks :
                        tasks[t].pc = "opened" /\ tasks[t].sessions = 2})

\* The connections of the pool that are held: a session takes one when it
\* runs a statement and gives it back when the result has been consumed.
InUse == Cardinality({t \in 1..MaxTasks : tasks[t].pc = "running"})

\* (variant: the session is closed on return only, not on raise)
ExitOnReturnOnly(open, error) == IF error = None THEN open - 1 ELSE open

\* async with self.driver.session() as session: the session is closed when
\* the block is left, by return or by raise.  open counts the sessions the
\* call has open.
AsyncWithExit(open, error) == open - 1

\* (variant: MERGE, no second relationship of one type between two nodes)
MergeEdge(edges, r) ==
    IF \E q \in edges : /\ q.source_uuid = r.source_uuid
                        /\ q.target_uuid = r.target_uuid
                        /\ q.type = r.type
    THEN edges
    ELSE edges \cup {r}

\* CREATE (source)-[r:...]->(target)
CreateEdge(edges, r) == edges \cup {r}

\* Tasks are given their calls in the order of their numbers.
Startable(t) == tasks[t].pc = "idle" /\ (t > 1 => tasks[t - 1].pc # "idle")

\* The first lines of a call, up to its first await: the uuid is drawn (by
\* the two create operations) and the session is opened.
Begin(t, op, args, drawn_uuid) ==
    tasks' = [tasks EXCEPT ![t] =
                [Idle EXCEPT !.pc = "opened", !.op = op, !.args = args,
                             !.uuid = drawn_uuid, !.sessions = 1]]

\* await session.run(...): the engine has executed the statement on the
\* store and row is what it answers with.  seen keeps the uuids of the nodes
\* the statement found in the store.
Sent(t, row) ==
    tasks' = [tasks EXCEPT ![t].pc = "running",
                           ![t].reply = Append(@, row),
                           ![t].seen = {n.uuid : n \in nodes}]

EngineError(row) == "error" \in DOMAIN row

BeginCreateNode(t, name, node_type, summary, group_id, created_at) ==
    /\ Startable(t)
    /\ Begin(t, "create_node",
             [name |-> name, node_type |-> node_type, summary |-> summary,
              group_id |-> group_id, created_at |-> created_at],
             NodeUuid(issued.nodes + 1))
    /\ issued' = [issued EXCEPT !.nodes = @ + 1]
    /\ UNCHANGED <<nodes, rels, last, before, graph_ops>>

BeginCreateRelationship(t, source_uuid, target_uuid, relationship_type, created_at) ==
    /\ Startable(t)
    /\ Begin(t, "create_relationship",
             [source_uuid |-> source_uuid, target_uuid |-> target_uuid,
              relationship_type |-> relationship_type, summary |-> None,
              group_id |-> None, created_at |-> created_at],
             RelUuid(issued.rels + 1))
    /\ issued' = [issued EXCEPT !.rels = @ + 1]
    /\ UNCHANGED <<nodes, rels, last, before, graph_ops>>

BeginGetNodeByUuid(t, node_uuid) ==
    /\ Startable(t)
    /\ Begin(t, "get_node_by_uuid", [node_uuid |-> node_uuid], <<>>)
    /\ UNCHANGED <<nodes, rels, issued, last, before, graph_ops>>

BeginUpdateNode(t, node_uuid, name, summary) ==
    /\ Startable(t)
    /\ Begin(t, "update_node",
             [node_uuid |-> node_uuid, name |-> name, summary |-> summary],
             <<>>)
    /\ UNCHANGED <<nodes, rels, issued, last, before, graph_ops>>

BeginDeleteNode(t, node_uuid) ==
    /\ Startable(t)
    /\ Begin(t, "delete_node", [node_uuid |-> node_uuid], <<>>)
    /\ UNCHANGED <<nodes, rels, issued, last, before, graph_ops>>

BeginGetGraphStats(t) ==
    /\ Startable(t)
    /\ Begin(t, "get_graph_stats", NoRecord, <<>>)
    /\ UNCHANGED <<nodes, rels, issued, last, before, graph_ops>>

\* update_node without fields, inside its own session: it awaits
\* get_node_by_uuid, which opens a session of its own.
NoFields(c) == c.op = "update_node" /\ c.args.name = None /\ c.args.summary = None

Delegate(t) ==
    /\ tasks[t].pc = "opened"
    /\ NoFields(tasks[t])
    /\ tasks[t].sessions = 1
    /\ tasks' = [tasks EXCEPT ![t].sessions = @ + 1]
    /\ UNCHANGED <<nodes, rels, issued, last, before, graph_ops>>

RunCreateNode(t) ==
    LET c == tasks[t]
        n == [uuid |-> c.uuid, labels |-> <<QuotedName(c.args.node_type)>>,
              name |-> c.args.name, summary |-> c.args.summary,
              group_id |-> c.args.group_id, created_at |-> c.args.created_at]
    IN  /\ c.pc = "opened"
        /\ c.op = "create_node"
        /\ InUse < PoolSize
        /\ IF EngineAccepts(c.args.node_type)
           THEN nodes' = nodes \cup {n} /\ Sent(t, n)
           ELSE UNCHANGED nodes /\ Sent(t, [error |-> CypherSyntaxError])
        /\ UNCHANGED <<rels, issued, last, before, graph_ops>>

RunCreateRelationship(t) ==
    LET c == tasks[t]
        rel_type == RelType(c.args.relationship_type)
        r == [uuid |-> c.uuid, source_uuid |-> c.args.source_uuid,
              target_uuid |-> c.args.target_uuid, type |-> QuotedName(rel_type),
              summary |-> c.args.summary, group_id |-> c.args.group_id,
              created_at |-> c.args.created_at]
    IN  /\ c.pc = "opened"
        /\ c.op = "create_relationship"
        /\ InUse < PoolSize
        /\ IF ~EngineAccepts(rel_type)
           THEN UNCHANGED rels /\ Sent(t, [error |-> CypherSyntaxError])
           ELSE IF BothMatch(nodes, c.args.source_uuid, c.args.target_uuid)
           THEN rels' = CreateEdge(rels, r) /\ Sent(t, r)
           ELSE UNCHANGED rels /\ Sent(t, NoRecord)
        /\ UNCHANGED <<nodes, issued, last, before, graph_ops>>

\* MATCH (n {uuid: $uuid}) RETURN n, labels(n): get_node_by_uuid, called by
\* the caller or by update_node.
RunMatch(t) ==
    LET c == tasks[t]
    IN  /\ c.pc = "opened"
        /\ \/ c.op = "get_node_by_uuid"
           \/ NoFields(c) /\ c.sessions = 2
        /\ InUse < PoolSize
        /\ Sent(t, Single(MatchNode(nodes, c.args.node_uuid)))
        /\ UNCHANGED <<nodes, rels, issued, last, before, graph_ops>>

RunSet(t) ==
    LET c == tasks[t]
        matched == MatchNode(nodes, c.args.node_uuid)
        updated == {SetFields(n, c.args.name, c.args.summary) : n \in matched}
    IN  /\ c.pc = "opened"
        /\ c.op = "update_node"
        /\ ~NoFields(c)
        /\ InUse < PoolSize
        /\ nodes' = (nodes \ matched) \cup updated
        /\ Sent(t, Single(updated))
        /\ UNCHANGED <<rels, issued, last, before, graph_ops>>

RunDelete(t) ==
    LET c == tasks[t]
        matched == MatchNode(nodes, c.args.node_uuid)
    IN  /\ c.pc = "opened"
        /\ c.op = "delete_node"
        /\ InUse < PoolSize
        /\ nodes' = nodes \ matched
        /\ rels' = IF matched = {} THEN rels ELSE Detach(rels, c.args.node_uuid)
        /\ Sent(t, [deleted_count |-> Cardinality(matched)])
        /\ UNCHANGED <<issued, last, before, graph_ops>>

\* The next of the three queries of get_graph_stats, each a transaction of
\* its own in the one session.  read keeps the store each query ran on.
RunStats(t) ==
    LET c == tasks[t]
        row == CASE Len(c.reply) = 0 -> AggregateNodes(nodes)
                 [] Len(c.reply) = 1 -> AggregateRels(rels)
                 [] OTHER -> AggregateEpisodes(nodes)
    IN  /\ c.pc = "opened"
        /\ c.op = "get_graph_stats"
        /\ InUse < PoolSize
        /\ tasks' = [tasks EXCEPT
                        ![t].pc = "running",
                        ![t].reply = Append(@, row),
                        ![t].seen = {n.uuid : n \in nodes},
                        ![t].read = Append(@, [nodes |-> nodes, rels |-> rels])]
        /\ UNCHANGED <<nodes, rels, issued, last, before, graph_ops>>

\* await result.single() in get_graph_stats, with a query still to run.
NextQuery(t) ==
    /\ tasks[t].pc = "running"
    /\ tasks[t].op = "get_graph_stats"
    /\ Len(tasks[t].reply) < 3
    /\ tasks' = [tasks EXCEPT ![t].pc = "opened"]
    /\ UNCHANGED <<nodes, rels, issued, last, before, graph_ops>>

\* What the call makes of the engine's answer: its return value, or the
\* exception it ends with.  The True or False of delete_node is kept in a
\* record of one field.
Outcome(c) ==
    LET row == c.reply[Len(c.reply)]
        raised(e) == [result |-> NoRecord, error |-> e]
        returned(v) == [result |-> v, error |-> None]
    IN  CASE c.op = "create_node" ->
                IF EngineError(row) THEN raised(row.error)
                ELSE returned([uuid |-> row.uuid, name |-> row.name,
                               summary |-> row.summary,
                               group_id |-> row.group_id,
                               created_at |-> row.created_at,
                               type |-> c.args.node_type])
          [] c.op = "create_relationship" ->
                IF EngineError(row) THEN raised(row.error)
                ELSE IF row # NoRecord
                THEN returned([uuid |-> c.uuid,
                               source_uuid |-> c.args.source_uuid,
                               target_uuid |-> c.args.target_uuid,
                               type |-> c.args.relationship_type,
                               summary |-> c.args.summary,
                               group_id |-> c.args.group_id,
                               created_at |-> c.args.created_at])
                ELSE raised(NodesMayNotExist)
          [] c.op = "get_node_by_uuid" ->
                returned(IF row # NoRecord THEN NodeDict(row) ELSE NoRecord)
          [] c.op = "update_node" ->
                IF row # NoRecord THEN returned(NodeDict(row))
                ELSE raised(NodeNotFound)
          [] c.op = "delete_node" ->
                returned([deleted |-> Deleted(row.deleted_count)])
          [] OTHER -> returned(GraphStats(c.reply[1], c.reply[2], c.reply[3]))

\* await result.single(), the mapping of the record, and the way out of the
\* async with blocks: of get_node_by_uuid's first when update_node called it.
Return(t) ==
    LET c == tasks[t]
        out == Outcome(c)
        open == IF NoFields(c) THEN AsyncWithExit(c.sessions, None)
                ELSE c.sessions
    IN  /\ c.pc = "running"
        /\ c.op = "get_graph_stats" => Len(c.reply) = 3
        /\ tasks' = [tasks EXCEPT ![t].pc = "returned",
                                  ![t].result = out.result,
                                  ![t].error = out.error,
                                  ![t].sessions = AsyncWithExit(open, out.error)]
        /\ UNCHANGED <<nodes, rels, issued, last, before, graph_ops>>

\* Two nodes that create_node has written.
NodeA ==
    [uuid |-> NodeUuid(1), labels |-> <<Person>>, name |-> "n1",
     summary |-> None, group_id |-> None, created_at |-> "t1"]
NodeB == [NodeA EXCEPT !.uuid = NodeUuid(2)]

\* The database after two calls of create_node, and no call in flight.
InitConcurrent ==
    /\ nodes = {NodeA, NodeB}
    /\ rels = {}
    /\ issued = [nodes |-> 2, rels |-> 0]
    /\ last = [op |-> "create_node",
               args |-> [name |-> "n1", node_type |-> Person,
                         summary |-> None, group_id |-> None],
               result |-> [uuid |-> NodeB.uuid, name |-> "n1",
                           summary |-> None, group_id |-> None,
                           created_at |-> "t1", type |-> Person],
               error |-> None]
    /\ before = [nodes |-> {NodeA}, rels |-> {}]
    /\ tasks = [t \in 1..MaxTasks |-> Idle]
    /\ graph_ops = Handle

NextConcurrent ==
    \/ \E t \in 1..MaxTasks, node_type \in {Person, Empty},
          created_at \in Timestamps :
            BeginCreateNode(t, "n1", node_type, None, None, created_at)
    \/ \E t \in 1..MaxTasks, created_at \in Timestamps :
            BeginCreateRelationship(t, NodeA.uuid, NodeB.uuid, Knows, created_at)
    \/ \E t \in 1..MaxTasks : BeginGetNodeByUuid(t, NodeA.uuid)
    \/ \E t \in 1..MaxTasks, name \in Optional({"n2"}) :
            BeginUpdateNode(t, NodeA.uuid, name, None)
    \/ \E t \in 1..MaxTasks, node_uuid \in {NodeA.uuid, NodeB.uuid} :
            BeginDeleteNode(t, node_uuid)
    \/ \E t \in 1..MaxTasks : BeginGetGraphStats(t)
    \/ \E t \in 1..MaxTasks : Delegate(t)
    \/ \E t \in 1..MaxTasks : RunCreateNode(t)
    \/ \E t \in 1..MaxTasks : RunCreateRelationship(t)
    \/ \E t \in 1..MaxTasks : RunMatch(t)
    \/ \E t \in 1..MaxTasks : RunSet(t)
    \/ \E t \in 1..MaxTasks : RunDelete(t)
    \/ \E t \in 1..MaxTasks : RunStats(t)
    \/ \E t \in 1..MaxTasks : NextQuery(t)
    \/ \E t \in 1..MaxTasks : Return(t)

SpecConcurrent == InitConcurrent /\ [][NextConcurrent]_vars

\* get_graph_stats next to the calls that change what it counts, on an
\* empty database.
NextSnapshot ==
    \/ \E t \in 1..MaxTasks, node_type \in {Person, Episode},
          created_at \in Timestamps :
            BeginCreateNode(t, "n1", node_type, None, None, created_at)
    \/ \E t \in 1..MaxTasks, created_at \in Timestamps :
            BeginCreateRelationship(t, NodeUuid(1), NodeUuid(1), Knows, created_at)
    \/ \E t \in 1..MaxTasks : BeginDeleteNode(t, NodeUuid(1))
    \/ \E t \in 1..MaxTasks : BeginGetGraphStats(t)
    \/ \E t \in 1..MaxTasks : RunCreateNode(t)
    \/ \E t \in 1..MaxTasks : RunCreateRelationship(t)
    \/ \E t \in 1..MaxTasks : RunDelete(t)
    \/ \E t \in 1..MaxTasks : RunStats(t)
    \/ \E t \in 1..MaxTasks : NextQuery(t)
    \/ \E t \in 1..MaxTasks : Return(t)

SpecSnapshot == Init /\ [][NextSnapshot]_vars

\* The calls that read and write one node, on the database of two nodes.
NextUpdates ==
    \/ \E t \in 1..MaxTasks, name \in Optional({"n2"}),
          summary \in Optional(Summaries) :
            BeginUpdateNode(t, NodeA.uuid, name, summary)
    \/ \E t \in 1..MaxTasks : BeginGetNodeByUuid(t, NodeA.uuid)
    \/ \E t \in 1..MaxTasks : BeginDeleteNode(t, NodeA.uuid)
    \/ \E t \in 1..MaxTasks : Delegate(t)
    \/ \E t \in 1..MaxTasks : RunMatch(t)
    \/ \E t \in 1..MaxTasks : RunSet(t)
    \/ \E t \in 1..MaxTasks : RunDelete(t)
    \/ \E t \in 1..MaxTasks : Return(t)

SpecUpdates == InitConcurrent /\ [][NextUpdates]_vars

\* What a call does once it has been started: the event loop runs every
\* task that is ready, and the engine answers every statement.
Proceed(t) ==
    \/ Delegate(t)
    \/ RunCreateNode(t)
    \/ RunCreateRelationship(t)
    \/ RunMatch(t)
    \/ RunSet(t)
    \/ RunDelete(t)
    \/ RunStats(t)
    \/ NextQuery(t)
    \/ Return(t)

SpecLive ==
    /\ InitConcurrent
    /\ [][NextConcurrent]_vars
    /\ \A t \in 1..MaxTasks : WF_vars(Proceed(t))

\* ------------------------------------------------------------------ claims

\* The failures of the specification, as the code raises them: the code has
\* no error types of its own and raises Exception with a message.
EndpointNotFoundError == NodesMayNotExist
NotFoundError == NodeNotFound
Failed == last.error # None

Unchanged == nodes = before.nodes /\ rels = before.rels

HasDelimiter(s) == \E i \in 1..Len(s) : s[i] = Backtick
IsWhitespace(c) == c \in {" ", "\t", "\n", "\r"}
\* What the Label Sanitizer of the specification lets through.
ValidLabel(s) == s # <<>> /\ ~HasDelimiter(s) /\ \A i \in 1..Len(s) : s[i] \notin {"\t", "\n", "\r"}

Exists(store, uuid) == \E n \in store : n.uuid = uuid

\* C1: in every reachable state, the source_uuid and the target_uuid of every
\* stored relationship are the uuids of nodes in the store.
NoDanglingEdges ==
    \A r \in rels : Exists(nodes, r.source_uuid) /\ Exists(nodes, r.target_uuid)

\* A node that was the target of a relationship has just been deleted.
NoDanglingEdgesWitness ==
    /\ last.op = "delete_node"
    /\ last.result = TRUE
    /\ \E r \in before.rels :
        /\ r.target_uuid = last.args.node_uuid
        /\ r.source_uuid # last.args.node_uuid
    /\ nodes # {}

\* C2: create_node with a type that holds the quoting delimiter fails and
\* leaves the nodes and the relationships as they were.  (Any error counts as
\* the failure here; the code has no InvalidLabelError.)
InjectionRejected ==
    (last.op = "create_node" /\ HasDelimiter(last.args.node_type))
        => (Failed /\ Unchanged)

\* C3: create_relationship with a source or a target that is the uuid of no
\* node fails and leaves the nodes and the relationships as they were; with a
\* relationship type that is a valid label the failure is
\* EndpointNotFoundError.
MissingEndpointFails ==
    (/\ last.op = "create_relationship"
     /\ \/ ~Exists(before.nodes, last.args.source_uuid)
        \/ ~Exists(before.nodes, last.args.target_uuid))
        => /\ Unchanged
           /\ last.result = NoRecord
           /\ Failed
           /\ ValidLabel(last.args.relationship_type)
                => last.error = EndpointNotFoundError

\* The source exists, the target does not, and the call failed as claimed.
MissingEndpointWitness ==
    /\ last.op = "create_relationship"
    /\ Exists(before.nodes, last.args.source_uuid)
    /\ ~Exists(before.nodes, last.args.target_uuid)
    /\ last.error = EndpointNotFoundError

\* C4: when delete(a) runs on a store that holds a relationship from a to b,
\* get(a) then finds no node, b is still in the store, and no relationship
\* has a as its source or its target.
CascadeOnDelete ==
    \A r \in before.rels :
        (last.op = "delete_node" /\ r.source_uuid = last.args.node_uuid)
            => /\ GetNode(nodes, last.args.node_uuid) = NoRecord
               /\ r.target_uuid # last.args.node_uuid
                    => \E b \in nodes : b.uuid = r.target_uuid /\ b \in before.nodes
               /\ \A q \in rels : /\ q.source_uuid # last.args.node_uuid
                                  /\ q.target_uuid # last.args.node_uuid

\* delete(a) has run on a store with a relationship from a to another node b.
CascadeOnDeleteWitness ==
    /\ last.op = "delete_node"
    /\ \E r \in before.rels :
        /\ r.source_uuid = last.args.node_uuid
        /\ r.target_uuid # last.args.node_uuid
        /\ Exists(nodes, r.target_uuid)

\* C5: right after create_node has returned a record for a valid type, get on
\* the record's uuid returns a dict equal to it in uuid, name, summary,
\* group_id, created_at and type.
RoundTrip ==
    (/\ last.op = "create_node"
     /\ ValidLabel(last.args.node_type)
     /\ last.error = None)
        => LET got == GetNode(nodes, last.result.uuid)
           IN  /\ got # NoRecord
               /\ got.uuid = last.result.uuid
               /\ got.name = last.args.name
               /\ got.summary = last.args.summary
               /\ got.group_id = last.args.group_id
               /\ got.created_at = last.result.created_at
               /\ got.type = last.args.node_type
               /\ got = last.result

\* A node with a summary and a group has been created next to another node.
RoundTripWitness ==
    /\ last.op = "create_node"
    /\ last.error = None
    /\ last.result.summary = "s1"
    /\ last.result.group_id = "g1"
    /\ before.nodes # {}

\* C6: every node create_node has written carries the marker label Entity
\* and, beside it, the type the caller gave.
MarkerOnEveryNode ==
    \A n \in nodes :
        /\ \E i \in 1..Len(n.labels) : n.labels[i] = Entity
        /\ \E i \in 1..Len(n.labels) : n.labels[i] # Entity

\* C7: update_node with neither name nor summary leaves the store as it was;
\* it returns the record of the node as stored when the node exists and
\* fails with NotFoundError when it does not.
NoOpUpdate ==
    (/\ last.op = "update_node"
     /\ last.args.name = None
     /\ last.args.summary = None)
        => /\ Unchanged
           /\ IF Exists(before.nodes, last.args.node_uuid)
              THEN /\ last.error = None
                   /\ \E n \in before.nodes :
                        /\ n.uuid = last.args.node_uuid
                        /\ last.result.uuid = n.uuid
                        /\ last.result.name = n.name
                        /\ last.result.summary = n.summary
                        /\ last.result.group_id = n.group_id
                        /\ last.result.created_at = n.created_at
                        /\ last.result.type = n.labels[1]
              ELSE /\ last.error = NotFoundError
                   /\ last.result = NoRecord

\* The update without fields has returned the record of a node whose summary
\* an earlier update set.
NoOpUpdateWitness ==
    /\ last.op = "update_node"
    /\ last.args.name = None
    /\ last.args.summary = None
    /\ last.error = None
    /\ last.result.summary = "s1"
    /\ last.result.name = "n2"

\* C8: delete_node never fails; it returns true exactly when a node with the
\* uuid was in the store, and that node is then gone; when it returns false
\* the store is as it was.
DeleteResult ==
    last.op = "delete_node"
        => /\ last.error = None
           /\ last.result = Exists(before.nodes, last.args.node_uuid)
           /\ ~Exists(nodes, last.args.node_uuid)
           /\ \A n \in before.nodes : n.uuid # last.args.node_uuid => n \in nodes
           /\ nodes \subseteq before.nodes
           /\ last.result = FALSE => Unchanged

\* delete_node has returned false on a store that holds nodes and a
\* relationship.
DeleteResultWitness ==
    /\ last.op = "delete_node"
    /\ last.result = FALSE
    /\ nodes # {}
    /\ rels # {}

\* The labels of a record other than the marker, in the record's order.
NonMarker(labels) == SelectSeq(labels, LAMBDA l : l # Entity)

\* The node the last get or update answered with.
Answered(n) ==
    /\ last.op \in {"get_node_by_uuid", "update_node"}
    /\ last.result # NoRecord
    /\ n.uuid = last.args.node_uuid

\* C9 as claimed: the type reported is the first label that is not the
\* marker, and "Unknown" when the record has no such label.
TypeOrUnknown ==
    \A n \in nodes :
        Answered(n)
            => last.result.type = IF NonMarker(n.labels) # <<>>
                                  THEN Head(NonMarker(n.labels))
                                  ELSE Unknown

\* C9 as amended: the type reported is the first label that is not the
\* marker; when every label is the marker it is the record's first label,
\* the marker itself; it is "Unknown" only when the record has no label.
TypeOrFirstLabel ==
    \A n \in nodes :
        Answered(n)
            => last.result.type = IF NonMarker(n.labels) # <<>>
                                  THEN Head(NonMarker(n.labels))
                                  ELSE IF n.labels # <<>> THEN Head(n.labels)
                                  ELSE Unknown

\* get has answered for a node whose only label is the marker.
TypeOrFirstLabelWitness ==
    \E n \in nodes :
        /\ Answered(n)
        /\ last.op = "get_node_by_uuid"
        /\ n.labels = <<Entity>>
        /\ last.result.type = Entity

\* The normalization of the specification: trimmed, uppercased, every run of
\* whitespace inside replaced by one underscore.
RECURSIVE TrimLeft(_)
TrimLeft(s) == IF s # <<>> /\ IsWhitespace(Head(s)) THEN TrimLeft(Tail(s)) ELSE s
RECURSIVE TrimRight(_)
TrimRight(s) ==
    IF s # <<>> /\ IsWhitespace(s[Len(s)])
    THEN TrimRight(SubSeq(s, 1, Len(s) - 1))
    ELSE s
RECURSIVE Collapse(_)
Collapse(s) ==
    IF s = <<>> THEN <<>>
    ELSE IF IsWhitespace(Head(s)) THEN <<"_">> \o Collapse(TrimLeft(s))
    ELSE <<UpperChar(Head(s))>> \o Collapse(Tail(s))
Normalized(s) == Collapse(TrimRight(TrimLeft(s)))

\* The relationship the last create_relationship wrote.
Written(r) ==
    /\ last.op = "create_relationship"
    /\ last.error = None
    /\ r.uuid = last.result.uuid

\* C10 as claimed, on the types that hold no quoting delimiter: the label
\* stored is the type trimmed, uppercased, with every run of whitespace
\* replaced by one underscore.
StoredLabelNormalized ==
    \A r \in rels :
        (Written(r) /\ ~HasDelimiter(last.args.relationship_type))
            => r.type = Normalized(last.args.relationship_type)

\* C10 as amended: the label stored has a character for every character of
\* the type, a letter uppercased, a space replaced by an underscore, nothing
\* trimmed and no run collapsed; two delimiters in a row are stored as one.
StoredLabelUpperUnderscore ==
    \A r \in rels :
        Written(r)
            => LET t == last.args.relationship_type
               IN  IF ~HasDelimiter(t)
                   THEN /\ Len(r.type) = Len(t)
                        /\ \A i \in 1..Len(t) :
                            r.type[i] = IF t[i] = " " THEN "_" ELSE UpperChar(t[i])
                   ELSE t = Doubled => r.type = <<"P", Backtick, "Q">>

\* " works  at " has been stored as _WORKS__AT_.
StoredLabelWitness ==
    \E r \in rels :
        /\ Written(r)
        /\ last.args.relationship_type = WorksAt
        /\ r.type = <<"_","W","O","R","K","S","_","_","A","T","_">>

\* C12: with no other call in flight, get_graph_stats reports the number of
\* nodes in the store, exactly the types get_node_by_uuid reports for those
\* nodes, and the number of relationships in the store; a create_node that
\* succeeds raises the reported total_nodes by one and leaves the reported
\* total_relationships as it was.
StatsConsistent ==
    /\ last.op = "get_graph_stats"
        => /\ last.error = None
           /\ last.result.total_nodes = Cardinality(nodes)
           /\ last.result.node_types = {NodeType(n.labels) : n \in nodes}
           /\ last.result.total_relationships = Cardinality(rels)
    /\ (last.op = "create_node" /\ last.error = None)
        => /\ StatsOf(nodes, rels).total_nodes
                = StatsOf(before.nodes, before.rels).total_nodes + 1
           /\ StatsOf(nodes, rels).total_relationships
                = StatsOf(before.nodes, before.rels).total_relationships
           /\ last.args.node_type \in StatsOf(nodes, rels).node_types

\* get_graph_stats has answered on a store with two nodes of different types
\* and a relationship.
StatsConsistentWitness ==
    /\ last.op = "get_graph_stats"
    /\ last.result.total_nodes = 2
    /\ last.result.node_types = {Person, Place}
    /\ last.result.total_relationships = 1

\* C13: update_node with a name or a summary, on a node of the store, changes
\* of that node only the fields supplied: its uuid, labels, group_id and
\* created_at and the field not supplied are as before, and so are every
\* other node and every relationship.
UpdateFrame ==
    \A m \in before.nodes :
        (/\ last.op = "update_node"
         /\ last.args.name # None \/ last.args.summary # None
         /\ m.uuid = last.args.node_uuid)
            => /\ \E n \in nodes :
                    /\ n.uuid = m.uuid
                    /\ n.labels = m.labels
                    /\ n.group_id = m.group_id
                    /\ n.created_at = m.created_at
                    /\ n.name = IF last.args.name # None
                                THEN last.args.name ELSE m.name
                    /\ n.summary = IF last.args.summary # None
                                   THEN last.args.summary ELSE m.summary
                    /\ last.error = None
                    /\ last.result = NodeDict(n)
               /\ {n \in nodes : n.uuid # m.uuid}
                    = {n \in before.nodes : n.uuid # m.uuid}
               /\ Cardinality(nodes) = Cardinality(before.nodes)
               /\ rels = before.rels

\* An update of the name alone has run on a node with a summary, in a store
\* with another node and a relationship.
UpdateFrameWitness ==
    /\ last.op = "update_node"
    /\ last.args.name = "n2"
    /\ last.args.summary = None
    /\ last.error = None
    /\ last.result.summary = "s1"
    /\ \E m \in before.nodes : m.uuid = last.args.node_uuid /\ m.name = "n1"
    /\ Cardinality(nodes) = 2
    /\ rels # {}

\* C14: update_node with a name or a summary, on a uuid no node of the store
\* carries, fails with NotFoundError and leaves the store as it was.
UpdateMissing ==
    (/\ last.op = "update_node"
     /\ last.args.name # None \/ last.args.summary # None
     /\ ~Exists(before.nodes, last.args.node_uuid))
        => /\ last.error = NotFoundError
           /\ last.result = NoRecord
           /\ Unchanged

\* An update with both fields has failed on the uuid of a deleted node, in a
\* store that holds another node.
UpdateMissingWitness ==
    /\ last.op = "update_node"
    /\ last.args.name # None
    /\ last.args.summary # None
    /\ last.error = NotFoundError
    /\ last.args.node_uuid \in {NodeUuid(k) : k \in 1..issued.nodes}
    /\ nodes # {}

\* What the normalization of the code leaves of a relationship type.
InvalidRelType(relationship_type) == ~ValidLabel(RelType(relationship_type))

\* C18: create_relationship with a type that is empty, or that after
\* normalization holds the quoting delimiter or a control character, fails
\* and writes no relationship.  (Any error counts as the failure here; the
\* code has no InvalidLabelError.)
InvalidRelTypeRejected ==
    (last.op = "create_relationship" /\ InvalidRelType(last.args.relationship_type))
        => (Failed /\ rels = before.rels)

\* The record get_graph_stats returns on an empty graph.
EmptyStats ==
    [total_nodes |-> 0, total_relationships |-> 0, total_episodes |-> 0,
     node_types |-> {}, relationship_types |-> {}]

\* C19: get_graph_stats does not fail; a query that returns no record gives
\* 0 for its counts and no types, and on a store without nodes and
\* relationships the result is 0 for the three counts and no node types and
\* no relationship types.
StatsOnEmpty ==
    /\ GraphStats(NoRecord, NoRecord, NoRecord) = EmptyStats
    /\ \A node_record \in {NoRecord, AggregateNodes(nodes)},
          rel_record \in {NoRecord, AggregateRels(rels)},
          episode_record \in {NoRecord, AggregateEpisodes(nodes)} :
            LET stats == GraphStats(node_record, rel_record, episode_record)
            IN  /\ node_record = NoRecord
                    => stats.total_nodes = 0 /\ stats.node_types = {}
                /\ rel_record = NoRecord
                    => /\ stats.total_relationships = 0
                       /\ stats.relationship_types = {}
                /\ episode_record = NoRecord => stats.total_episodes = 0
    /\ last.op = "get_graph_stats"
        => /\ last.error = None
           /\ (before.nodes = {} /\ before.rels = {}) => last.result = EmptyStats

\* get_graph_stats has answered on a store that deletes have emptied.
StatsOnEmptyWitness ==
    /\ last.op = "get_graph_stats"
    /\ last.result = EmptyStats
    /\ issued.nodes > 0
    /\ issued.rels > 0

\* The calls whose statement the engine has executed.
Executed(c) == c.pc \in {"running", "returned"}

\* The relationship with the uuid a call of create_relationship drew is in
\* the store.
EdgeOf(c) == \E r \in rels : r.uuid = c.uuid

\* C11: under every interleaving of create_relationship with delete_node, a
\* create_relationship that returns a record found both endpoints in the
\* store at the instant its statement ran, and its relationship is in the
\* store for as long as both endpoints are; one that fails fails with
\* EndpointNotFoundError, did not find both endpoints, and has written no
\* relationship; and no relationship of the store lacks an endpoint.
AtomicCreateRelationship ==
    /\ NoDanglingEdges
    /\ \A t \in 1..MaxTasks :
        LET c == tasks[t]
            found == {c.args.source_uuid, c.args.target_uuid} \subseteq c.seen
        IN  (c.op = "create_relationship" /\ Executed(c))
                => /\ EdgeOf(c) <=> /\ found
                                    /\ Exists(nodes, c.args.source_uuid)
                                    /\ Exists(nodes, c.args.target_uuid)
                   /\ c.pc = "returned"
                        => IF found
                           THEN c.error = None /\ c.result.uuid = c.uuid
                           ELSE /\ c.error = EndpointNotFoundError
                                /\ c.result = NoRecord

\* create_relationship was called first, delete_node of its source ran
\* before its statement did, and it has failed.
AtomicCreateRelationshipWitness ==
    /\ tasks[1].op = "create_relationship"
    /\ tasks[1].pc = "returned"
    /\ tasks[1].error = EndpointNotFoundError
    /\ tasks[2].op = "delete_node"
    /\ tasks[2].args.node_uuid = tasks[1].args.source_uuid
    /\ tasks[2].pc = "returned"
    /\ tasks[2].result.deleted = TRUE
    /\ rels = {}

\* C15: every call of create_node with a valid type returns a record, under
\* every interleaving; the nodes of two such calls are two nodes of the store
\* with different uuids, whether or not the names are the same: the store
\* holds one more node for every such call; and no two nodes of the store
\* have the same uuid.
DistinctNodes ==
    /\ \A n \in nodes, m \in nodes : n.uuid = m.uuid => n = m
    /\ \A t \in 1..MaxTasks :
        LET c == tasks[t]
        IN  (c.op = "create_node" /\ ValidLabel(c.args.node_type) /\ Executed(c))
                => /\ \E n \in nodes : n.uuid = c.uuid /\ n.name = c.args.name
                   /\ c.pc = "returned"
                        => c.error = None /\ c.result.uuid = c.uuid
                   /\ \A u \in 1..MaxTasks :
                        (u # t /\ tasks[u].op = "create_node")
                            => tasks[u].uuid # c.uuid
    /\ Cardinality({n \in nodes : n.uuid \notin {NodeA.uuid, NodeB.uuid}})
            = Cardinality({t \in 1..MaxTasks :
                                /\ tasks[t].op = "create_node"
                                /\ ValidLabel(tasks[t].args.node_type)
                                /\ Executed(tasks[t])})

\* Two calls of create_node with the same name were in flight together: the
\* second has returned, the first has written its node and not yet returned.
DistinctNodesWitness ==
    /\ tasks[1].op = "create_node"
    /\ tasks[2].op = "create_node"
    /\ tasks[1].args.name = tasks[2].args.name
    /\ tasks[1].args.node_type = Person
    /\ tasks[2].args.node_type = Person
    /\ tasks[1].pc = "running"
    /\ tasks[2].pc = "returned"
    /\ tasks[2].error = None
    /\ Cardinality(nodes) = 4

\* C16: every call of create_relationship that finds both endpoints returns
\* a record, whatever relationships are in the store; two such calls with
\* the same source, target and type have different uuids and, while both
\* endpoints are in the store, their two relationships are both in it.
ParallelEdges ==
    \A t \in 1..MaxTasks, u \in 1..MaxTasks :
        LET c == tasks[t]
            d == tasks[u]
        IN  (/\ c.op = "create_relationship"
             /\ Executed(c)
             /\ {c.args.source_uuid, c.args.target_uuid} \subseteq c.seen)
                => /\ c.pc = "returned" => c.error = None
                   /\ (/\ u # t
                       /\ d.op = "create_relationship"
                       /\ Executed(d)
                       /\ {d.args.source_uuid, d.args.target_uuid} \subseteq d.seen
                       /\ d.args = c.args)
                        => /\ c.uuid # d.uuid
                           /\ (/\ Exists(nodes, c.args.source_uuid)
                               /\ Exists(nodes, c.args.target_uuid))
                                => \E r \in rels, q \in rels :
                                    /\ r.uuid = c.uuid
                                    /\ q.uuid = d.uuid
                                    /\ r # q
                                    /\ r.source_uuid = q.source_uuid
                                    /\ r.target_uuid = q.target_uuid
                                    /\ r.type = q.type

\* Two calls of create_relationship with the same arguments were in flight
\* together and have both returned a record; the store holds two
\* relationships.
ParallelEdgesWitness ==
    /\ tasks[1].op = "create_relationship"
    /\ tasks[2].op = "create_relationship"
    /\ tasks[1].args = tasks[2].args
    /\ tasks[1].pc = "running"
    /\ tasks[2].pc = "returned"
    /\ tasks[2].error = None
    /\ Cardinality(rels) = 2

\* C17: a call that has returned, with a record, with None or by raising,
\* has no session open; a call in flight has the one session it opened, and
\* update_node without fields the session of get_node_by_uuid as well.
SessionsReleased ==
    \A t \in 1..MaxTasks :
        LET c == tasks[t]
        IN  /\ c.pc \in {"idle", "returned"} => c.sessions = 0
            /\ c.pc \in {"opened", "running"} => c.sessions \in {1, 2}
            /\ c.sessions = 2 => NoFields(c)

\* update_node without fields has raised out of its two sessions, after a
\* delete_node that has returned.
SessionsReleasedWitness ==
    \E t \in 1..MaxTasks, u \in 1..MaxTasks :
        /\ tasks[t].op = "update_node"
        /\ NoFields(tasks[t])
        /\ tasks[t].pc = "returned"
        /\ tasks[t].error = NodeNotFound
        /\ tasks[t].sessions = 0
        /\ tasks[u].op = "delete_node"
        /\ tasks[u].pc = "returned"
        /\ tasks[u].sessions = 0

\* C20: with the event loop running every ready task and the engine
\* answering every statement, every call that has been started returns,
\* whatever other calls are in flight and with fewer connections in the pool
\* than calls: from some point on no call is in flight, every task either
\* has returned or was never given a call.  (A task is given one call and a
\* call that has returned stays returned, so this is the same as every
\* started call returning.)
EveryCallReturns ==
    <>[](\A t \in 1..MaxTasks : tasks[t].pc \in {"idle", "returned"})

\* A call waits for a connection that the statement of another call holds.
EveryCallReturnsWitness ==
    \E t \in 1..MaxTasks, u \in 1..MaxTasks :
        /\ tasks[t].pc = "opened"
        /\ tasks[u].pc = "running"
        /\ InUse = PoolSize

\* The last request came while graph_ops was None.
Refused == last.error = NotInitialized

\* C21: a request to a graph endpoint that comes while graph_ops is None is
\* answered with status 503.
NotInitialized503 == Refused => Response = 503

\* The calls of get_graph_stats that have returned.
StatsReturned ==
    {t \in 1..MaxTasks :
        tasks[t].op = "get_graph_stats" /\ tasks[t].pc = "returned"}

\* C22 as stated: every result of get_graph_stats describes one state of the
\* graph, also when writes run next to it.  In a state of the graph the
\* episodes are among the nodes and a relationship has its two nodes, so
\* total_episodes never exceeds total_nodes and total_relationships is never
\* positive while total_nodes is 0.
StatsSnapshot ==
    \A t \in StatsReturned :
        /\ tasks[t].result.total_episodes <= tasks[t].result.total_nodes
        /\ tasks[t].result.total_nodes = 0 =>
                tasks[t].result.total_relationships = 0

\* C22: every part of a result of get_graph_stats describes the state of the
\* graph at the query that read it: total_nodes and node_types the state at
\* the first query, total_relationships and relationship_types the state at
\* the second, total_episodes the state at the third; and when the three
\* queries ran on one state the whole result describes that state.
StatsPerQuery ==
    \A t \in StatsReturned :
        LET c == tasks[t]
            first == c.read[1]
            second == c.read[2]
            third == c.read[3]
        IN  /\ Len(c.read) = 3
            /\ c.error = None
            /\ c.result.total_nodes = Cardinality(first.nodes)
            /\ c.result.node_types =
                    {n.labels[1] : n \in first.nodes}
            /\ c.result.total_relationships = Cardinality(second.rels)
            /\ c.result.relationship_types = {r.type : r \in second.rels}
            /\ c.result.total_episodes =
                    Cardinality({n \in third.nodes : n.labels = <<Episode>>})
            /\ (first = second /\ second = third) =>
                    c.result = StatsOf(first.nodes, first.rels)

\* A result that no state of the graph gives: an Episode node was written
\* between the first query and the third.
StatsPerQueryWitness ==
    \E t \in StatsReturned :
        /\ tasks[t].result.total_nodes = 0
        /\ tasks[t].result.total_episodes = 1
        /\ tasks[t].read[1].nodes = {}
        /\ tasks[t].read[3].nodes # {}

\* C23: a call in flight holds at most one open session at any time, also
\* update_node without fields, which awaits get_node_by_uuid.
OneSessionPerCall == \A t \in 1..MaxTasks : tasks[t].sessions <= 1

\* The values that the update_node statements that found the node have
\* written to a field of it.
Given(field) ==
    {tasks[t].args[field] : t \in
        {u \in 1..MaxTasks :
            /\ tasks[u].op = "update_node"
            /\ tasks[u].args.node_uuid = NodeA.uuid
            /\ tasks[u].args[field] # None
            /\ Executed(tasks[u])
            /\ tasks[u].reply[Len(tasks[u].reply)] # NoRecord}}

\* A call of update_node that supplies one field only.
OnlyName(c) == c.op = "update_node" /\ c.args.name # None /\ c.args.summary = None

OnlySummary(c) == c.op = "update_node" /\ c.args.name = None /\ c.args.summary # None

\* C24: concurrent calls of update_node for one node that supply different
\* fields all take effect, under every interleaving: while the node is in the
\* store each field carries a value that a statement has written to it, and
\* the value create_node gave it only if no statement has written to it; a
\* call that returns a record returns the fields it supplied.
DisjointUpdates ==
    /\ \A n \in nodes :
            n.uuid = NodeA.uuid =>
                /\ n.name \in (IF Given("name") = {} THEN {NodeA.name}
                               ELSE Given("name"))
                /\ n.summary \in (IF Given("summary") = {} THEN {NodeA.summary}
                                  ELSE Given("summary"))
    /\ \A t \in 1..MaxTasks :
            LET c == tasks[t]
            IN  (c.op = "update_node" /\ c.pc = "returned" /\ c.error = None) =>
                    /\ c.args.name # None => c.result.name = c.args.name
                    /\ c.args.summary # None => c.result.summary = c.args.summary

\* The call that supplies only the summary was started after the one that
\* supplies only the name and has returned before that one has; the node
\* carries both new values.
DisjointUpdatesWitness ==
    /\ OnlyName(tasks[1])
    /\ tasks[1].pc = "running"
    /\ OnlySummary(tasks[2])
    /\ tasks[2].pc = "returned"
    /\ \E n \in nodes :
            /\ n.uuid = NodeA.uuid
            /\ n.name = tasks[1].args.name
            /\ n.summary = tasks[2].args.summary

====
